---- MODULE Spec2Model ----
\* The value types of src/model.rs (PageSize, CellOffset, TextEncoding,
\* SerialType, RawText) and the methods defined on them, as a state machine
\* of a caller that constructs one value at a time and calls its methods.
EXTENDS Integers, Sequences, FiniteSets, TLC

VARIABLES
    overflow_checks, \* build profile: TRUE = arithmetic overflow panics (debug)
    pointer_width,   \* target: the number of bits of usize
    obj,             \* the value the caller currently holds
    last             \* the last call made and its outcome

vars == <<overflow_checks, pointer_width, obj, last>>

-----------------------------------------------------------------------------
\* Machine integers.  u16 values are plain integers.  u32, u64 and usize
\* values are little-endian sequences of 16-bit limbs (two limbs for u32,
\* four for u64 and usize), so that values up to 2^64 - 1 keep their width.

Base == 2^16

U16 == 0 .. (Base - 1)

\* The w-limb value of a natural number k < 2^31.
Wide(k, w) ==
    [i \in 1..w |-> IF i = 1 THEN k % Base
                    ELSE IF i = 2 THEN k \div Base
                    ELSE 0]

\* Comparison of two limb values of the same width, from the top limb down.
RECURSIVE LimbLess(_, _, _)
LimbLess(a, b, i) ==
    IF i = 0 THEN FALSE
    ELSE IF a[i] # b[i] THEN a[i] < b[i]
    ELSE LimbLess(a, b, i - 1)

Less(a, b) == LimbLess(a, b, Len(a))

GreaterEq(a, b) == ~Less(a, b)

\* a - b modulo 2^(16 * Len(a)), and whether the subtraction borrowed out.
RECURSIVE SubLimbs(_, _, _, _)
SubLimbs(a, b, i, borrow) ==
    IF i > Len(a) THEN <<>>
    ELSE LET d == a[i] - b[i] - borrow
         IN  <<d % Base>> \o SubLimbs(a, b, i + 1, IF d < 0 THEN 1 ELSE 0)

WrappingSub(a, b) == SubLimbs(a, b, 1, 0)

\* a \div 2: every limb takes the low bit of the limb above it.
Half(a) ==
    [i \in 1..Len(a) |->
        (a[i] \div 2) + (IF i < Len(a) THEN (a[i + 1] % 2) * (Base \div 2) ELSE 0)]

IsEven(a) == a[1] % 2 = 0

\* Whether a limb value fits in `bits` bits (bits a multiple of 16).
Fits(a, bits) == \A i \in 1..Len(a) : i > bits \div 16 => a[i] = 0

-----------------------------------------------------------------------------
\* Outcomes of a call: a returned value, or a panic.

Ok(v) == [kind |-> "Ok", val |-> v]

Err(e) == [kind |-> "Err", val |-> e]

Panic(m) == [kind |-> "Panic", val |-> m]

-----------------------------------------------------------------------------
\* PageSize and CellOffset

\* usize / u32 literal 0x1_00_00
Wide65536(w) == Wide(Base, w)

\* real_size() computed in 16 bits.
real_size_16_bits(s) == Wide((IF s = 1 THEN Base ELSE s) % Base, 4)

real_size(s) ==
    IF s = 1 THEN Wide65536(4)
    ELSE Wide(s, 4)

\* real_offset() without the arm for 0.
real_offset_plain(s) == Wide(s, 2)

\* real_offset() with the special stored value of PageSize.
real_offset_special_1(s) ==
    IF s = 1 THEN Wide65536(2)
    ELSE Wide(s, 2)

real_offset(s) ==
    IF s = 0 THEN Wide65536(2)
    ELSE Wide(s, 2)

-----------------------------------------------------------------------------
\* TextEncoding

TextEncodings == {"Utf8", "Utf16Le", "Utf16Be"}

UnknownTextEncodingError(value) ==
    [error |-> "UnknownTextEncodingError", value |-> value]

\* try_from() falling back to Utf8 on an unknown code.
try_from_default(value) ==
    IF value = Wide(2, 2) THEN Ok("Utf16Le")
    ELSE IF value = Wide(3, 2) THEN Ok("Utf16Be")
    ELSE Ok("Utf8")

try_from(value) ==
    IF value = Wide(1, 2) THEN Ok("Utf8")
    ELSE IF value = Wide(2, 2) THEN Ok("Utf16Le")
    ELSE IF value = Wide(3, 2) THEN Ok("Utf16Be")
    ELSE Err(UnknownTextEncodingError(value))

-----------------------------------------------------------------------------
\* SerialType

Unit(tag) == [tag |-> tag]

Blob(n) == [tag |-> "Blob", n |-> n]

Text(n) == [tag |-> "Text", n |-> n]

\* The variants of codes 0 ..= 11, in the order of the match arms.
FixedArms ==
    << "Null", "I8", "I16", "I24", "I32", "I48", "I64", "F64",
       "Const0", "Const1", "Reserved", "Reserved" >>

\* The match of from(), with the Blob arm starting above 12.
from_above_12(value) ==
    IF Less(value, Wide(Len(FixedArms), 4))
        THEN Ok(Unit(FixedArms[value[1] + 1]))
    ELSE IF Less(Wide(12, 4), value) /\ IsEven(value) THEN Ok(Blob(value))
    ELSE IF GreaterEq(value, Wide(13, 4)) /\ ~IsEven(value) THEN Ok(Text(value))
    ELSE Panic("unreachable")

from(value) ==
    IF Less(value, Wide(Len(FixedArms), 4))
        THEN Ok(Unit(FixedArms[value[1] + 1]))
    ELSE IF GreaterEq(value, Wide(12, 4)) /\ IsEven(value) THEN Ok(Blob(value))
    ELSE IF GreaterEq(value, Wide(13, 4)) /\ ~IsEven(value) THEN Ok(Text(value))
    ELSE Panic("unreachable")

\* u64 subtraction: an overflow panics when the build checks overflow and
\* wraps otherwise.
Sub(a, b) ==
    IF Less(a, b) /\ overflow_checks THEN Panic("attempt to subtract with overflow")
    ELSE Ok(WrappingSub(a, b))

\* u64 -> usize: try_into().unwrap()
TryIntoUnwrap(v) ==
    IF Fits(v, pointer_width) THEN Ok(v)
    ELSE Panic("unwrap on Err")

\* (n - k).try_into().unwrap(): the division by two left out.
VarSize_not_halved(n, k) ==
    LET d == Sub(n, Wide(k, 4))
    IN  IF d.kind = "Panic" THEN d ELSE TryIntoUnwrap(d.val)

\* ((n - k) / 2).try_into().unwrap()
VarSize(n, k) ==
    LET d == Sub(n, Wide(k, 4))
    IN  IF d.kind = "Panic" THEN d ELSE TryIntoUnwrap(Half(d.val))

size_arms(st) ==
    CASE st.tag = "Null" -> Ok(Wide(0, 4))
      [] st.tag = "I8" -> Ok(Wide(1, 4))
      [] st.tag = "I16" -> Ok(Wide(2, 4))
      [] st.tag = "I24" -> Ok(Wide(3, 4))
      [] st.tag = "I32" -> Ok(Wide(4, 4))
      [] st.tag = "I48" -> Ok(Wide(6, 4))
      [] st.tag = "I64" -> Ok(Wide(8, 4))
      [] st.tag = "F64" -> Ok(Wide(8, 4))
      [] st.tag = "Const0" -> Ok(Wide(0, 4))
      [] st.tag = "Const1" -> Ok(Wide(0, 4))
      [] st.tag = "Reserved" -> Panic("not implemented: reserved")
      [] st.tag = "Blob" -> VarSize(st.n, 12)
      [] st.tag = "Text" -> VarSize(st.n, 13)

\* size() with I48 taken as five bytes wide.
size_I48_five(st) ==
    IF st.tag = "I48" THEN Ok(Wide(5, 4)) ELSE size_arms(st)

\* size() with Reserved taken as zero bytes wide.
size_Reserved_zero(st) ==
    IF st.tag = "Reserved" THEN Ok(Wide(0, 4)) ELSE size_arms(st)

\* SerialType::size(&self)
size(st) == size_arms(st)

-----------------------------------------------------------------------------
\* RawText.  A String is the sequence of its Unicode scalar values.

REPLACEMENT_CHARACTER == 65536 - 3

Get(bytes, i) == IF i <= Len(bytes) THEN bytes[i] ELSE 0

IsCont(b) == b \in 128..191

utf8_char_width(b) ==
    IF b < 128 THEN 1
    ELSE IF b \in 194..223 THEN 2
    ELSE IF b \in 224..239 THEN 3
    ELSE IF b \in 240..244 THEN 4
    ELSE 0

\* The second byte a three-byte sequence allows after its first byte.
Second3(first, b) ==
    \/ first = 224 /\ b \in 160..191
    \/ first \in 225..236 /\ b \in 128..191
    \/ first = 237 /\ b \in 128..159
    \/ first \in 238..239 /\ b \in 128..191

\* The second byte a four-byte sequence allows after its first byte.
Second4(first, b) ==
    \/ first = 240 /\ b \in 144..191
    \/ first \in 241..243 /\ b \in 128..191
    \/ first = 244 /\ b \in 128..143

\* String::from_utf8_lossy: every maximal invalid part becomes U+FFFD.
RECURSIVE Lossy(_, _)
Lossy(bytes, i) ==
    IF i > Len(bytes) THEN <<>>
    ELSE
        LET first == bytes[i]
            b1 == Get(bytes, i + 1)
            b2 == Get(bytes, i + 2)
            b3 == Get(bytes, i + 3)
            w == utf8_char_width(first)
            bad(k) == <<REPLACEMENT_CHARACTER>> \o Lossy(bytes, i + k)
        IN  CASE w = 1 -> <<first>> \o Lossy(bytes, i + 1)
              [] w = 2 ->
                    IF ~IsCont(b1) THEN bad(1)
                    ELSE <<(first - 192) * 64 + (b1 - 128)>> \o Lossy(bytes, i + 2)
              [] w = 3 ->
                    IF ~Second3(first, b1) THEN bad(1)
                    ELSE IF ~IsCont(b2) THEN bad(2)
                    ELSE <<(first - 224) * 4096 + (b1 - 128) * 64 + (b2 - 128)>>
                            \o Lossy(bytes, i + 3)
              [] w = 4 ->
                    IF ~Second4(first, b1) THEN bad(1)
                    ELSE IF ~IsCont(b2) THEN bad(2)
                    ELSE IF ~IsCont(b3) THEN bad(3)
                    ELSE <<(first - 240) * 262144 + (b1 - 128) * 4096
                            + (b2 - 128) * 64 + (b3 - 128)>> \o Lossy(bytes, i + 4)
              [] OTHER -> bad(1)

from_utf8_lossy(bytes) == Lossy(bytes, 1)

decode(bytes, text_encoding) ==
    CASE text_encoding = "Utf8" -> Ok(from_utf8_lossy(bytes))
      [] text_encoding = "Utf16Le" -> Panic("not implemented: utf16 not supported yet")
      [] text_encoding = "Utf16Be" -> Panic("not implemented: utf16 not supported yet")

-----------------------------------------------------------------------------
\* The inputs the caller draws from.

MaxCode == 40

MaxTextLen == 2

\* Low limbs: every small code, and the edges of the limb.
LowLimbs == (0 .. MaxCode) \cup {Base \div 2 - 1, Base \div 2, Base - 2, Base - 1}

\* Higher limbs: the edges of the limb.
EdgeLimbs == {0, 1, 2, Base \div 2, Base - 2, Base - 1}

U32Inputs == {<<a, b>> : a \in LowLimbs, b \in EdgeLimbs}

U64Inputs ==
    {<<a, b, c, d>> : a \in LowLimbs, b \in EdgeLimbs, c \in EdgeLimbs, d \in EdgeLimbs}

SerialTypes ==
    {Unit(FixedArms[i]) : i \in 1..Len(FixedArms)}
        \cup {Blob(n) : n \in U64Inputs} \cup {Text(n) : n \in U64Inputs}

\* An ASCII byte, continuation bytes, and first bytes of every width.
ByteInputs == {65, 128, 159, 160, 191, 193, 194, 224, 237, 240, 244, 255}

RECURSIVE SeqsUpTo(_, _)
SeqsUpTo(S, n) ==
    IF n = 0 THEN {<<>>}
    ELSE LET shorter == SeqsUpTo(S, n - 1)
         IN  shorter \cup {Append(q, x) : q \in shorter, x \in S}

TextInputs == SeqsUpTo(ByteInputs, MaxTextLen)

-----------------------------------------------------------------------------
Nothing == [type |-> "None"]

NoCall == [op |-> "none"]

Idle == obj = Nothing /\ last = NoCall

Init ==
    /\ overflow_checks \in BOOLEAN
    /\ pointer_width \in {32, 64}
    /\ obj = Nothing
    /\ last = NoCall

\* PageSize(s): the field is public, any u16 constructs one.
NewPageSize ==
    /\ Idle
    /\ \E s \in U16 :
        /\ obj' = [type |-> "PageSize", v |-> s]
        /\ last' = [op |-> "PageSize", arg |-> s]
    /\ UNCHANGED <<overflow_checks, pointer_width>>

RealSize ==
    /\ obj.type = "PageSize"
    /\ last' = [op |-> "real_size", arg |-> obj.v, out |-> Ok(real_size(obj.v))]
    /\ UNCHANGED <<overflow_checks, pointer_width, obj>>

\* CellOffset(s): the field is public, any u16 constructs one.
NewCellOffset ==
    /\ Idle
    /\ \E s \in U16 :
        /\ obj' = [type |-> "CellOffset", v |-> s]
        /\ last' = [op |-> "CellOffset", arg |-> s]
    /\ UNCHANGED <<overflow_checks, pointer_width>>

RealOffset ==
    /\ obj.type = "CellOffset"
    /\ last' = [op |-> "real_offset", arg |-> obj.v, out |-> Ok(real_offset(obj.v))]
    /\ UNCHANGED <<overflow_checks, pointer_width, obj>>

\* TextEncoding::try_from(value): the caller holds the encoding on success.
TryFrom ==
    /\ Idle
    /\ \E value \in U32Inputs :
        LET out == try_from(value)
        IN  /\ last' = [op |-> "try_from", arg |-> value, out |-> out]
            /\ obj' = IF out.kind = "Ok"
                        THEN [type |-> "TextEncoding", v |-> out.val]
                        ELSE obj
    /\ UNCHANGED <<overflow_checks, pointer_width>>

\* SerialType::from(value): the caller holds the variant unless the call panics.
From ==
    /\ Idle
    /\ \E value \in U64Inputs :
        LET out == from(value)
        IN  /\ last' = [op |-> "from", arg |-> value, out |-> out]
            /\ obj' = IF out.kind = "Ok"
                        THEN [type |-> "SerialType", v |-> out.val,
                              origin |-> [op |-> "from", arg |-> value]]
                        ELSE obj
    /\ UNCHANGED <<overflow_checks, pointer_width>>

\* A SerialType built directly: the enum and its payloads are public.
NewSerialType ==
    /\ Idle
    /\ \E st \in SerialTypes :
        /\ obj' = [type |-> "SerialType", v |-> st, origin |-> [op |-> "new"]]
        /\ last' = [op |-> "SerialType", arg |-> st]
    /\ UNCHANGED <<overflow_checks, pointer_width>>

Size ==
    /\ obj.type = "SerialType"
    /\ last' = [op |-> "size", arg |-> obj.v, origin |-> obj.origin,
                out |-> size(obj.v)]
    /\ UNCHANGED <<overflow_checks, pointer_width, obj>>

\* RawText::new(v)
New ==
    /\ Idle
    /\ \E v \in TextInputs :
        /\ obj' = [type |-> "RawText", v |-> v]
        /\ last' = [op |-> "new", arg |-> v]
    /\ UNCHANGED <<overflow_checks, pointer_width>>

Decode ==
    /\ obj.type = "RawText"
    /\ \E text_encoding \in TextEncodings :
        last' = [op |-> "decode", arg |-> obj.v, text_encoding |-> text_encoding,
                 out |-> decode(obj.v, text_encoding)]
    /\ UNCHANGED <<overflow_checks, pointer_width, obj>>

\* The caller lets go of what it holds and of the last outcome.
Drop ==
    /\ ~Idle
    /\ obj' = Nothing
    /\ last' = NoCall
    /\ UNCHANGED <<overflow_checks, pointer_width>>

Next ==
    \/ NewPageSize
    \/ RealSize
    \/ NewCellOffset
    \/ RealOffset
    \/ TryFrom
    \/ From
    \/ NewSerialType
    \/ Size
    \/ New
    \/ Decode
    \/ Drop

Spec == Init /\ [][Next]_vars

-----------------------------------------------------------------------------
\* Arithmetic the properties are stated with: limb values of a number written
\* out, and the sum of two limb values modulo 2^(16 * Len(a)).

U32Of(k) == <<k, 0>>

U64Of(k) == <<k, 0, 0, 0>>

RECURSIVE AddLimbs(_, _, _, _)
AddLimbs(a, b, i, carry) ==
    IF i > Len(a) THEN <<>>
    ELSE LET t == a[i] + b[i] + carry
         IN  <<t % Base>> \o AddLimbs(a, b, i + 1, t \div Base)

Plus(a, b) == AddLimbs(a, b, 1, 0)

Twice(a) == Plus(a, a)

\* The codes of the variable-length kinds: 12 and above.
IsVarCode(n) == n[2] # 0 \/ n[3] # 0 \/ n[4] # 0 \/ n[1] >= 12

IsBlobCode(n) == IsVarCode(n) /\ n[1] % 2 = 0

IsTextCode(n) == IsVarCode(n) /\ n[1] % 2 = 1

\* The call returned the value v.
Returned(v) == last.out.kind = "Ok" /\ last.out.val = v

SizeOfFrom == last.op = "size" /\ last.origin.op = "from"

\* 2 * L + k = n for the length L that size() returned.
LengthOf(n, k) ==
    /\ last.out.kind = "Ok"
    /\ Plus(Twice(last.out.val), U64Of(k)) = n

\* Whether the length of the variable-length code n fits in usize: always when
\* usize has 64 bits; when it has 32, exactly when n - k < 2^33, k being 12
\* for a blob and 13 for a text.
LengthFits(n, k) ==
    \/ pointer_width = 64
    \/ /\ pointer_width = 32
       /\ n[4] = 0
       /\ \/ n[3] < 2
          \/ n[3] = 2 /\ n[2] = 0 /\ n[1] < k

-----------------------------------------------------------------------------
\* C1: TextEncoding::try_from(v) returns Ok(Utf8) for v = 1, Ok(Utf16Le) for
\* v = 2, Ok(Utf16Be) for v = 3, and for v = 0 and every v > 3 the error
\* UnknownTextEncodingError carrying that same v.
C1_TryFrom ==
    last.op = "try_from" =>
        /\ last.arg = U32Of(1) => Returned("Utf8")
        /\ last.arg = U32Of(2) => Returned("Utf16Le")
        /\ last.arg = U32Of(3) => Returned("Utf16Be")
        /\ last.arg \notin {U32Of(1), U32Of(2), U32Of(3)} =>
            /\ last.out.kind = "Err"
            /\ last.out.val.error = "UnknownTextEncodingError"
            /\ last.out.val.value = last.arg

\* try_from(2^32 - 1) has failed, the caller holding nothing.
C1_Witness ==
    /\ last.op = "try_from"
    /\ last.arg = <<Base - 1, Base - 1>>
    /\ last.out.kind = "Err"
    /\ obj = Nothing

\* C2 as stated: for every even code n >= 12, from(n) is Blob(n) and its
\* size() is (n - 12) / 2; for every odd code n >= 13, from(n) is Text(n) and
\* its size() is (n - 13) / 2.
C2_Original ==
    /\ last.op = "from" /\ IsBlobCode(last.arg) => Returned(Blob(last.arg))
    /\ last.op = "from" /\ IsTextCode(last.arg) => Returned(Text(last.arg))
    /\ SizeOfFrom /\ IsBlobCode(last.origin.arg) => LengthOf(last.origin.arg, 12)
    /\ SizeOfFrom /\ IsTextCode(last.origin.arg) => LengthOf(last.origin.arg, 13)

\* C2 as amended: for every even code n >= 12, from(n) is Blob(n), and its
\* size() is (n - 12) / 2 when that length fits in usize and panics when it
\* does not; for every odd code n >= 13, from(n) is Text(n), and its size() is
\* (n - 13) / 2 when that length fits in usize and panics when it does not.
\* The length always fits when usize has 64 bits.
C2_Amended ==
    /\ last.op = "from" /\ IsBlobCode(last.arg) => Returned(Blob(last.arg))
    /\ last.op = "from" /\ IsTextCode(last.arg) => Returned(Text(last.arg))
    /\ SizeOfFrom /\ IsBlobCode(last.origin.arg) =>
        IF LengthFits(last.origin.arg, 12)
            THEN LengthOf(last.origin.arg, 12)
            ELSE last.out.kind = "Panic"
    /\ SizeOfFrom /\ IsTextCode(last.origin.arg) =>
        IF LengthFits(last.origin.arg, 13)
            THEN LengthOf(last.origin.arg, 13)
            ELSE last.out.kind = "Panic"

\* size() of from(2^64 - 1), a Text, has returned 2^63 - 7 on a 64-bit target.
C2_Witness ==
    /\ SizeOfFrom
    /\ pointer_width = 64
    /\ last.origin.arg = <<Base - 1, Base - 1, Base - 1, Base - 1>>
    /\ last.arg.tag = "Text"
    /\ Returned(<<Base - 7, Base - 1, Base - 1, Base \div 2 - 1>>)

\* The variants and the widths C3 lists for the codes 0 ..= 11 and 0 ..= 9.
C3_Variants ==
    << "Null", "I8", "I16", "I24", "I32", "I48", "I64", "F64",
       "Const0", "Const1", "Reserved", "Reserved" >>

C3_Widths == <<0, 1, 2, 3, 4, 6, 8, 8, 0, 0>>

\* C3: from maps the codes 0 ..= 11 to Null, I8, I16, I24, I32, I48, I64, F64,
\* Const0, Const1, Reserved, Reserved, and size() of the results for the codes
\* 0 ..= 9 is 0, 1, 2, 3, 4, 6, 8, 8, 0, 0.
C3_FixedCodes ==
    /\ last.op = "from" =>
        \A k \in 0..11 :
            last.arg = U64Of(k) => Returned([tag |-> C3_Variants[k + 1]])
    /\ SizeOfFrom =>
        \A k \in 0..9 :
            last.origin.arg = U64Of(k) => Returned(U64Of(C3_Widths[k + 1]))

\* size() of from(5), an I48, has returned 6.
C3_Witness ==
    /\ SizeOfFrom
    /\ last.origin.arg = U64Of(5)
    /\ last.arg.tag = "I48"
    /\ Returned(U64Of(6))

\* C4: size() of SerialType::Reserved never returns a byte count.
C4_ReservedFails ==
    last.op = "size" /\ last.arg.tag = "Reserved" => last.out.kind # "Ok"

\* size() of from(11), a Reserved, has been called and returned nothing.
C4_Witness ==
    /\ SizeOfFrom
    /\ last.origin.arg = U64Of(11)
    /\ last.arg.tag = "Reserved"
    /\ last.out.kind # "Ok"

\* C5: size() of Reserved and decode() under Utf16Le or Utf16Be fail with an
\* error value returned to the caller, never by aborting, and decode() under
\* Utf16Le or Utf16Be never returns a string.
C5_TypedFailures ==
    /\ last.op = "size" /\ last.arg.tag = "Reserved" => last.out.kind = "Err"
    /\ last.op = "decode" /\ last.text_encoding \in {"Utf16Le", "Utf16Be"} =>
        last.out.kind = "Err"

\* The powers of two from 512 to 65536, as usize values.
C6_PageSizes ==
    {<<512, 0, 0, 0>>, <<1024, 0, 0, 0>>, <<2048, 0, 0, 0>>, <<4096, 0, 0, 0>>,
     <<8192, 0, 0, 0>>, <<16384, 0, 0, 0>>, <<32768, 0, 0, 0>>, <<0, 1, 0, 0>>}

\* C6: real_size() of every PageSize that can be constructed is a power of two
\* between 512 and 65536.
C6_PowerOfTwo ==
    last.op = "real_size" =>
        last.out.kind = "Ok" /\ last.out.val \in C6_PageSizes

\* C7: PageSize(s).real_size() is 65536 when s is 1 and s for every other s,
\* never cut to 16 bits.
C7_RealSize ==
    last.op = "real_size" =>
        IF last.arg = 1 THEN Returned(<<0, 1, 0, 0>>)
        ELSE Returned(<<last.arg, 0, 0, 0>>)

\* real_size() of PageSize(1) has returned 65536.
C7_Witness ==
    /\ last.op = "real_size"
    /\ obj = [type |-> "PageSize", v |-> 1]
    /\ Returned(<<0, 1, 0, 0>>)

\* C8: CellOffset(s).real_offset() is 65536 when s is 0 and s for every other
\* s, never cut to 16 bits.
C8_RealOffset ==
    last.op = "real_offset" =>
        IF last.arg = 0 THEN Returned(<<0, 1>>)
        ELSE Returned(<<last.arg, 0>>)

\* real_offset() of CellOffset(0) has returned 65536.
C8_Witness ==
    /\ last.op = "real_offset"
    /\ obj = [type |-> "CellOffset", v |-> 0]
    /\ Returned(<<0, 1>>)

\* The inverse encoders of C9: 65536 goes to the special stored value, any
\* other value that 16 bits hold to itself, and no other value is stored.
\* The result is the set of the stored values of r: one value, or none.
EncodeOffset(r) ==
    IF r = <<0, 1>> THEN {0}
    ELSE IF r[2] = 0 THEN {r[1]}
    ELSE {}

EncodePageSize(r) ==
    IF r = <<0, 1, 0, 0>> THEN {1}
    ELSE IF r[2] = 0 /\ r[3] = 0 /\ r[4] = 0 THEN {r[1]}
    ELSE {}

\* C9: the inverse encoder recovers the stored value from real_offset() and
\* from real_size(), for every stored value, 0, 1, 512 and 65535 among them.
C9_RoundTrip ==
    /\ last.op = "real_offset" =>
        last.out.kind = "Ok" /\ EncodeOffset(last.out.val) = {last.arg}
    /\ last.op = "real_size" =>
        last.out.kind = "Ok" /\ EncodePageSize(last.out.val) = {last.arg}

\* real_offset() of CellOffset(0) has returned the value that encodes to 0.
C9_Witness ==
    /\ last.op = "real_offset"
    /\ last.arg = 0
    /\ last.out.val # <<0, 0>>
    /\ EncodeOffset(last.out.val) = {0}

\* C10: from(n) returns a variant for every code n, and on a 64-bit target
\* size() of that variant returns a value for every n but 10 and 11.
C10_Total ==
    /\ last.op = "from" => last.out.kind = "Ok"
    /\ SizeOfFrom /\ pointer_width = 64
            /\ last.origin.arg \notin {U64Of(10), U64Of(11)} =>
        last.out.kind = "Ok"

\* size() of from(12), a Blob, has returned 0 in a build that checks overflow.
C10_Witness ==
    /\ SizeOfFrom
    /\ pointer_width = 64
    /\ overflow_checks
    /\ last.origin.arg = U64Of(12)
    /\ Returned(U64Of(0))

====
